---- MODULE Spec2Model ----
(***************************************************************************)
(* Model of standoff.py (spyysalo/standoff2conll): textbound parsing,      *)
(* validation, overlap elimination and BIO retagging.                      *)
(*                                                                         *)
(* Strings are sequences of character codes, so that Python's string       *)
(* comparison and slicing are computed and not assumed.                    *)
(***************************************************************************)
EXTENDS Integers, Sequences, FiniteSets, TLC

VARIABLES
    textbounds,    \* list of Textbound passed to eliminate_overlaps
    overlap_rule,  \* the overlap_rule argument
    call,          \* which function has been applied: "none", "eliminate", "select"
    result,        \* outcome of eliminate_overlaps
    selected,      \* the arguments and outcome of one select_eliminated_and_kept call
    sentences,     \* document.sentences: each a list of tokens, a token holds its tag
    text,          \* the document text
    discont_rule,  \* the discont_rule argument of parse_textbounds
    verified       \* outcome of verify_textbounds

vars == <<textbounds, overlap_rule, call, result, selected, sentences, text,
          discont_rule, verified>>

\* ---------------------------------------------------------------- bounds
Stride == 5        \* distance between two neighbouring offsets of a grid
MaxSpans == 3      \* longest list of spans of a document
MaxPos == 3        \* their offsets are Stride * (0..MaxPos)
MaxPairPos == 4    \* offsets of the two-span inputs: Stride * (0..MaxPairPos)
TextLen == 3       \* tokens and spans of a retagged document lie in 0..TextLen
MaxRetagSpans == 2 \* longest list of spans passed to retag_document
MaxText == 1       \* longest document text, and longest text of a record
MaxOff == 2        \* offsets of a record range over 0..MaxOff
MaxRecords == 2    \* most textbound records of a document

\* ------------------------------------------------------------- constants
None == "None"
KEEP_LONGER == "keep-longer"
KEEP_SHORTER == "keep-shorter"
OVERLAP_RULES == <<KEEP_LONGER, KEEP_SHORTER>>

\* Type labels as character codes: "Chemical" and "Drug".
Chemical == <<67, 104, 101, 109, 105, 99, 97, 108>>
Drug == <<68, 114, 117, 103>>
Types == {Chemical, Drug}

FULL_SPAN == "full-span"
LAST_SPAN == "last-span"
DISCONT_RULES == <<FULL_SPAN, LAST_SPAN>>

\* A discontinuity rule name that DISCONT_RULES does not hold.
FirstSpan == "first-span"
DiscontInputs == {None, FULL_SPAN, LAST_SPAN, FirstSpan}

\* An overlap rule name that OVERLAP_RULES does not hold.
KeepBoth == "keep-both"
RuleInputs == {None, KEEP_LONGER, KEEP_SHORTER, KeepBoth}

\* ------------------------------------------------------- Python helpers
\* Python's s > t on strings: lexicographic by code point, a proper prefix
\* is smaller.
RECURSIVE StrGT(_, _)
StrGT(s, t) ==
    IF s = <<>> THEN FALSE
    ELSE IF t = <<>> THEN TRUE
    ELSE IF Head(s) # Head(t) THEN Head(s) > Head(t)
    ELSE StrGT(Tail(s), Tail(t))

\* Python's s[lo:hi] for integers lo, hi: a negative index counts from the
\* end, and both are clipped to the string.
Clip(i, n) == IF i < 0 THEN (IF i + n < 0 THEN 0 ELSE i + n)
              ELSE (IF i > n THEN n ELSE i)
Slice(s, lo, hi) == SubSeq(s, Clip(lo, Len(s)) + 1, Clip(hi, Len(s)))
\* s[lo:]
SliceFrom(s, lo) == SubSeq(s, Clip(lo, Len(s)) + 1, Len(s))

\* ------------------------------------------------------------ Textbound
\* Textbound.__init__; id is the per-instance handle (parse_textbounds makes
\* one instance per T-line), so "t1 is t2" is t1.id = t2.id.
Textbound(id_, type_, start, end, text_) ==
    [id |-> id_, type |-> type_, start |-> start, end |-> end, text |-> text_,
     skip_validation |-> FALSE]

Raised == [raised |-> TRUE]

\* select_eliminated_and_kept: the pair (eliminated, kept), or ValueError.
SelectIdenticalMut(t1, t2) == StrGT(t2.type, t1.type)
SelectIdentical(t1, t2) == StrGT(t1.type, t2.type)

SelectSameLengthMut(t1, t2) == t1.end > t2.start
SelectSameLength(t1, t2) == t1.start > t2.start

KeepLongerElimFirstMut(t1, t2) == t1.end - t1.start > t2.end - t2.start
KeepLongerElimFirst(t1, t2) == t1.end - t1.start < t2.end - t2.start

KeepShorterElimFirst(t1, t2) == t1.end - t1.start > t2.end - t2.start

Pair(elim, keep) == [raised |-> FALSE, elim |-> elim, keep |-> keep]

select_eliminated_and_kept(t1, t2, rule_arg) ==
    LET rule == IF rule_arg = None THEN OVERLAP_RULES[1] ELSE rule_arg
    IN  IF <<t1.start, t1.end>> = <<t2.start, t2.end>>
        THEN IF SelectIdentical(t1, t2) THEN Pair(t1, t2) ELSE Pair(t2, t1)
        ELSE IF t1.end - t1.start = t2.end - t2.start
        THEN IF SelectSameLength(t1, t2) THEN Pair(t1, t2) ELSE Pair(t2, t1)
        ELSE IF rule = KEEP_LONGER
        THEN IF KeepLongerElimFirst(t1, t2) THEN Pair(t1, t2) ELSE Pair(t2, t1)
        ELSE IF rule = KEEP_SHORTER
        THEN IF KeepShorterElimFirst(t1, t2) THEN Pair(t1, t2) ELSE Pair(t2, t1)
        ELSE Raised

\* Textbound.is_valid: TRUE, or an assertion fails.
is_valid(t, doc_text) ==
    /\ 0 <= t.start /\ t.start <= Len(doc_text)
    /\ 0 <= t.end /\ t.end <= Len(doc_text)
    /\ t.start <= t.end
    /\ Slice(doc_text, t.start, t.end) = t.text

\* Textbound._resolve_discontinuous: the offsets and the text, or ValueError.
_resolve_discontinuous(offsets, text_, rule_arg) ==
    LET rule == IF rule_arg = None THEN FULL_SPAN ELSE rule_arg
        last_off == offsets[Len(offsets)]
    IN  IF Len(offsets) = 1
        THEN [raised |-> FALSE, offsets |-> offsets, text |-> text_]
        ELSE IF rule = FULL_SPAN
        THEN [raised |-> FALSE, offsets |-> <<<<offsets[1][1], last_off[2]>>>>,
              text |-> text_]
        ELSE IF rule = LAST_SPAN
        THEN [raised |-> FALSE, offsets |-> <<last_off>>,
              text |-> SliceFrom(text_, last_off[1] - last_off[2])]
        ELSE Raised

\* Textbound.from_str, from the parsed fields of the line on: the Textbound,
\* or FormatError (the ValueError of an unknown rule is caught and raised
\* again as FormatError).
from_str(id_, type_, offsets, text_, rule) ==
    LET was_discontinuous == Len(offsets) # 1
        r == IF was_discontinuous
             THEN _resolve_discontinuous(offsets, text_, rule)
             ELSE [raised |-> FALSE, offsets |-> offsets, text |-> text_]
    IN  IF r.raised THEN Raised
        ELSE [raised |-> FALSE,
              value |-> [Textbound(id_, type_, r.offsets[1][1], r.offsets[1][2],
                                   r.text)
                         EXCEPT !.skip_validation =
                                    was_discontinuous /\ rule # LAST_SPAN]]

\* verify_textbounds from span k on: the list with the texts written so far,
\* and whether FormatError was raised.
RECURSIVE VerifyLoop(_, _, _)
VerifyLoop(tbs, k, doc_text) ==
    IF k > Len(tbs) THEN [raised |-> FALSE, textbounds |-> tbs]
    ELSE LET t == tbs[k]
         IN  IF t.skip_validation
             THEN VerifyLoop([tbs EXCEPT ![k].text = Slice(doc_text, t.start, t.end)],
                             k + 1, doc_text)
             ELSE IF is_valid(t, doc_text)
             THEN VerifyLoop(tbs, k + 1, doc_text)
             ELSE [raised |-> TRUE, textbounds |-> tbs]

verify_textbounds(tbs, doc_text) == VerifyLoop(tbs, 1, doc_text)

\* The test of eliminate_overlaps that skips a pair: no overlap.
NoOverlapAdjacentMut(t1, t2) == t2.start > t1.end \/ t2.end < t1.start
NoOverlapTypoMut(t1, t2) == t2.start >= t1.start \/ t2.end <= t1.start
NoOverlap(t1, t2) == t2.start >= t1.end \/ t2.end <= t1.start

\* The nested loops of eliminate_overlaps, pair k of Len*Len in row-major
\* order; eliminate is the set of ids that are keys of the dict.
RECURSIVE EliminateLoop(_, _, _, _)
EliminateLoop(tbs, rule, k, eliminate) ==
    LET n == Len(tbs)
    IN  IF k >= n * n THEN [raised |-> FALSE, eliminate |-> eliminate]
        ELSE LET t1 == tbs[(k \div n) + 1]
                 t2 == tbs[(k % n) + 1]
             IN  IF t1.id = t2.id THEN EliminateLoop(tbs, rule, k + 1, eliminate)
                 ELSE IF NoOverlap(t1, t2)
                 THEN EliminateLoop(tbs, rule, k + 1, eliminate)
                 ELSE IF t1.id \in eliminate \/ t2.id \in eliminate
                 THEN EliminateLoop(tbs, rule, k + 1, eliminate)
                 ELSE LET s == select_eliminated_and_kept(t1, t2, rule)
                      IN  IF s.raised THEN Raised
                          ELSE EliminateLoop(tbs, rule, k + 1,
                                             eliminate \cup {s.elim.id})

\* [t for t in textbounds if not t in eliminate]
RECURSIVE Surviving(_, _)
Surviving(tbs, eliminate) ==
    IF tbs = <<>> THEN <<>>
    ELSE IF Head(tbs).id \in eliminate THEN Surviving(Tail(tbs), eliminate)
    ELSE <<Head(tbs)>> \o Surviving(Tail(tbs), eliminate)

eliminate_overlaps(tbs, rule) ==
    LET r == EliminateLoop(tbs, rule, 0, {})
    IN  IF r.raised THEN Raised
        ELSE [raised |-> FALSE, value |-> Surviving(tbs, r.eliminate)]

\* range(a, b)
Range(a, b) == a..(b - 1)

\* The tags, as the strings 'O', 'B-' + label and 'I-' + label.
OutTag == <<79>>
BeginTag(label) == <<66, 45>> \o label
InsideTag(label) == <<73, 45>> \o label

\* retag_document: the map from offset to span, a later span overwriting an
\* earlier one.
RECURSIVE OffsetAnn(_, _, _)
OffsetAnn(tbs, k, offset_ann) ==
    IF k > Len(tbs) THEN offset_ann
    ELSE LET tb == tbs[k]
             covered == Range(tb.start, tb.end)
         IN  OffsetAnn(tbs, k + 1,
                 [i \in (DOMAIN offset_ann) \cup covered |->
                     IF i \in covered THEN tb ELSE offset_ann[i]])

\* A value that may be None: Nothing, or Some(v).
Nothing == <<>>
Some(v) == <<v>>
Get(opt) == opt[1]

\* The inner loop of _retag_sentence: the span at the first offset of the
\* token that the map holds, None when there is none.
TokenSpan(token, offset_ann) ==
    LET hits == {o \in Range(token.start, token.end) : o \in DOMAIN offset_ann}
    IN  IF hits = {} THEN Nothing
        ELSE Some(offset_ann[CHOOSE o \in hits : \A x \in hits : o <= x])

\* The condition of the I- tag.
IsContinuationMut(label, prev_label, tb, token) == Get(tb).start < token.start
IsContinuation(label, prev_label, tb, token) ==
    label = prev_label /\ Get(tb).start < token.start

\* _retag_sentence from token k on: the tokens with their tags.
RECURSIVE RetagTokens(_, _, _, _)
RetagTokens(tokens, offset_ann, k, prev_label) ==
    IF k > Len(tokens) THEN tokens
    ELSE LET token == tokens[k]
             tb == TokenSpan(token, offset_ann)
             label == IF tb = Nothing THEN Nothing ELSE Some(Get(tb).type)
             tag == IF tb = Nothing THEN OutTag
                    ELSE IF IsContinuation(label, prev_label, tb, token)
                    THEN InsideTag(Get(label))
                    ELSE BeginTag(Get(label))
         IN  RetagTokens([tokens EXCEPT ![k].tag = tag], offset_ann, k + 1, label)

_retag_sentence(sentence, offset_ann) ==
    RetagTokens(sentence, offset_ann, 1, Nothing)

retag_document(doc_sentences, tbs) ==
    LET offset_ann == OffsetAnn(tbs, 1, <<>>)
    IN  [s \in DOMAIN doc_sentences |-> _retag_sentence(doc_sentences[s], offset_ann)]

\* ------------------------------------------------ overlap specifications
Offsets(maxpos) == {Stride * k : k \in 0..maxpos}
Ranges(maxpos) == {r \in Offsets(maxpos) \X Offsets(maxpos) : r[1] <= r[2]}

\* The annotations a document can hold: Drug spans over every range, Chemical
\* spans over the ranges of non-zero length that start at offset 0.
Annotations(maxpos) ==
    {<<Drug, r>> : r \in Ranges(maxpos)}
        \cup {<<Chemical, r>> : r \in {x \in Ranges(maxpos) : x[1] = 0 /\ x[2] > 0}}

\* Every type over every range.
AllAnnotations(maxpos) == Types \X Ranges(maxpos)

\* The lists of at most n spans drawn from anns; the span at position i is
\* instance i. The text of a span is left empty: overlap elimination and
\* retagging read it only to print it.
RECURSIVE SpanLists(_, _)
SpanLists(n, anns) ==
    IF n = 0 THEN {<<>>}
    ELSE LET shorter == SpanLists(n - 1, anns)
         IN  shorter \cup
             {Append(l, Textbound(n, a[1], a[2][1], a[2][2], <<>>)) :
                 l \in {x \in shorter : Len(x) = n - 1}, a \in anns}

NoCall == [raised |-> FALSE]

\* The spans of one document: up to MaxSpans spans on the coarse grid.
InitOverlap ==
    /\ textbounds \in SpanLists(MaxSpans, Annotations(MaxPos))
    /\ overlap_rule = None
    /\ call = "none"
    /\ result = NoCall
    /\ selected = NoCall
    /\ sentences = <<>>
    /\ text = <<>>
    /\ discont_rule = None
    /\ verified = None

\* At most two spans, on the finer grid.
InitPair ==
    /\ textbounds \in SpanLists(2, AllAnnotations(MaxPairPos))
    /\ overlap_rule = None
    /\ call = "none"
    /\ result = NoCall
    /\ selected = NoCall
    /\ sentences = <<>>
    /\ text = <<>>
    /\ discont_rule = None
    /\ verified = None

CallEliminateOverlaps ==
    /\ call = "none"
    /\ \E rule \in RuleInputs :
          /\ overlap_rule' = rule
          /\ result' = eliminate_overlaps(textbounds, rule)
    /\ call' = "eliminate"
    /\ UNCHANGED <<textbounds, selected, sentences, text, discont_rule, verified>>

\* One call of select_eliminated_and_kept, on a pair eliminate_overlaps
\* passes to it: distinct instances that overlap.
CallSelect ==
    /\ call = "none"
    /\ \E rule \in RuleInputs, i, j \in 1..Len(textbounds) :
          /\ textbounds[i].id # textbounds[j].id
          /\ ~ NoOverlap(textbounds[i], textbounds[j])
          /\ overlap_rule' = rule
          /\ selected' = [t1 |-> textbounds[i], t2 |-> textbounds[j],
                          out |-> select_eliminated_and_kept(
                                      textbounds[i], textbounds[j], rule)]
    /\ call' = "select"
    /\ UNCHANGED <<textbounds, result, sentences, text, discont_rule, verified>>

NextOverlap == CallEliminateOverlaps

NextPair == CallEliminateOverlaps \/ CallSelect

SpecOverlap == InitOverlap /\ [][NextOverlap]_vars

SpecPair == InitPair /\ [][NextPair]_vars

\* -------------------------------------------------- retag specification
\* A token before retagging: its tag is unset (the empty string here).
Token(start, end) == [start |-> start, end |-> end, tag |-> <<>>]

\* The token lists over 0..len: non-empty tokens in ascending order that do
\* not overlap.
RECURSIVE TokenLists(_)
TokenLists(len) ==
    IF len = 0 THEN {<<>>}
    ELSE TokenLists(len - 1) \cup
         UNION {{Append(l, Token(a, len)) : l \in TokenLists(a)} : a \in 0..(len - 1)}

\* A document of one sentence, or of two: the tokens cut after token k.
Documents ==
    {<<l>> : l \in TokenLists(TextLen)}
        \cup UNION {{<<SubSeq(l, 1, k), SubSeq(l, k + 1, Len(l))>> :
                        k \in 1..(Len(l) - 1)} : l \in TokenLists(TextLen)}

\* Spans of non-zero length inside the text (retag_document does nothing
\* with a span of length zero).
RetagAnnotations ==
    Types \X {r \in (0..TextLen) \X (0..TextLen) : r[1] < r[2]}

InitRetag ==
    /\ sentences \in Documents
    /\ textbounds \in SpanLists(MaxRetagSpans, RetagAnnotations)
    /\ overlap_rule = None
    /\ call = "none"
    /\ result = NoCall
    /\ selected = NoCall
    /\ text = <<>>
    /\ discont_rule = None
    /\ verified = None

CallRetagDocument ==
    /\ call = "none"
    /\ sentences' = retag_document(sentences, textbounds)
    /\ call' = "retag"
    /\ UNCHANGED <<textbounds, overlap_rule, result, selected, text, discont_rule,
                   verified>>

NextRetag == CallRetagDocument

SpecRetag == InitRetag /\ [][NextRetag]_vars

\* ------------------------------------------------- verify specification
Letters == {97, 98}

RECURSIVE Strings(_)
Strings(n) ==
    IF n = 0 THEN {<<>>}
    ELSE LET shorter == Strings(n - 1)
         IN  shorter \cup {Append(x, c) : x \in shorter, c \in Letters}

\* The offsets field of a record: one (start, end) pair, or two.
OffsetPairs == (0..MaxOff) \X (0..MaxOff)
OffsetLists == {<<a>> : a \in OffsetPairs} \cup {<<a, b>> : a, b \in OffsetPairs}

InitVerify ==
    /\ text \in Strings(MaxText)
    /\ discont_rule \in DiscontInputs
    /\ textbounds = <<>>
    /\ overlap_rule = None
    /\ call = "none"
    /\ result = NoCall
    /\ selected = NoCall
    /\ sentences = <<>>
    /\ verified = None

\* parse_textbounds reads one more T-line: from_str appends a Textbound, or
\* raises FormatError.
CallFromStr ==
    /\ call \in {"none", "parse"}
    /\ Len(textbounds) < MaxRecords
    /\ \E offsets \in OffsetLists, text_ \in Strings(MaxText) :
          LET r == from_str(Len(textbounds) + 1, Drug, offsets, text_, discont_rule)
          IN  IF r.raised
              THEN call' = "parse-error" /\ UNCHANGED textbounds
              ELSE call' = "parse" /\ textbounds' = Append(textbounds, r.value)
    /\ UNCHANGED <<overlap_rule, result, selected, sentences, text, discont_rule,
                   verified>>

CallVerifyTextbounds ==
    /\ call \in {"none", "parse"}
    /\ LET r == verify_textbounds(textbounds, text)
       IN  /\ textbounds' = r.textbounds
           /\ verified' = IF r.raised THEN "FormatError" ELSE "True"
    /\ call' = "verify"
    /\ UNCHANGED <<overlap_rule, result, selected, sentences, text, discont_rule>>

NextVerify == CallFromStr \/ CallVerifyTextbounds

SpecVerify == InitVerify /\ [][NextVerify]_vars

\* ------------------------------------------ vocabulary of the properties
\* Two half-open ranges intersect.
Intersects(a, b) == ~ (a.end <= b.start \/ b.end <= a.start)
Length(t) == t.end - t.start
Elems(seq) == {seq[i] : i \in 1..Len(seq)}
Recognised == overlap_rule \in {None, KEEP_LONGER, KEEP_SHORTER}
Eliminated == call = "eliminate"
Returned == Eliminated /\ ~ result.raised
Survivors == Elems(result.value)
Dropped == Elems(textbounds) \ Survivors

\* C1: under a recognised (or absent) rule eliminate_overlaps returns a list,
\* and no two distinct spans of it have intersecting half-open ranges.
C1_NoSurvivingOverlap ==
    (Eliminated /\ Recognised) =>
        /\ ~ result.raised
        /\ \A a, b \in Survivors : a.id # b.id => ~ Intersects(a, b)

\* C1 witness: a zero-length span strictly inside another span was in the
\* input and the returned list is shorter than the input.
C1_Witness ==
    /\ Returned /\ Recognised
    /\ \E a, b \in Elems(textbounds) :
          a.start = a.end /\ b.start < a.start /\ a.end < b.end
    /\ Len(result.value) < Len(textbounds)

\* C2 (as claimed): the returned set is maximal, every eliminated span
\* intersects some returned span.
C2_Maximal ==
    (Returned /\ Recognised) =>
        \A t \in Dropped : \E r \in Survivors : Intersects(t, r)

\* C2 (amended): the returned list is the input with some spans removed, and
\* every removed span intersects some other span of the input (which may
\* itself have been removed).
C2_DroppedIntersectsInput ==
    (Returned /\ Recognised) =>
        /\ \E e \in SUBSET {t.id : t \in Elems(textbounds)} :
              result.value = Surviving(textbounds, e)
        /\ \A t \in Dropped :
              \E u \in Elems(textbounds) : u.id # t.id /\ Intersects(t, u)

\* C2 witness: a removed span intersects no returned span.
C2_Witness ==
    /\ Returned /\ Recognised
    /\ \E t \in Dropped : \A r \in Survivors : ~ Intersects(t, r)

\* The span of a and b that the rule of the call asks to keep.
C3_Expected(a, b) ==
    IF overlap_rule = KEEP_SHORTER
    THEN IF Length(a) < Length(b) THEN a ELSE b
    ELSE IF Length(a) > Length(b) THEN a ELSE b

\* C3: two intersecting spans of different lengths: the longer one is kept
\* under keep-longer and under no rule, the shorter one under keep-shorter,
\* by select_eliminated_and_kept and by eliminate_overlaps on the two.
C3_RuleDecides ==
    /\ (Eliminated /\ Recognised /\ Len(textbounds) = 2) =>
          LET a == textbounds[1]
              b == textbounds[2]
          IN  (Intersects(a, b) /\ Length(a) # Length(b)) =>
                 /\ ~ result.raised
                 /\ result.value = <<C3_Expected(a, b)>>
    /\ (call = "select" /\ Recognised) =>
          LET a == selected.t1
              b == selected.t2
          IN  Length(a) # Length(b) =>
                 /\ ~ selected.out.raised
                 /\ selected.out.keep = C3_Expected(a, b)
                 /\ selected.out.elim = (IF C3_Expected(a, b) = a THEN b ELSE a)

\* C3 witness: [0,10) and [5,20) under keep-longer, [5,20) returned.
C3_Witness ==
    /\ Returned /\ overlap_rule = KEEP_LONGER
    /\ Len(textbounds) = 2
    /\ <<textbounds[1].start, textbounds[1].end>> = <<0, 10>>
    /\ <<textbounds[2].start, textbounds[2].end>> = <<5, 20>>
    /\ result.value = <<textbounds[2]>>

\* The input is two spans with the same range of non-zero length and
\* different types.
C4_Twins ==
    /\ Len(textbounds) = 2
    /\ <<textbounds[1].start, textbounds[1].end>>
          = <<textbounds[2].start, textbounds[2].end>>
    /\ textbounds[1].start < textbounds[1].end
    /\ textbounds[1].type # textbounds[2].type

C4_Greater(a, b) == IF StrGT(a.type, b.type) THEN a ELSE b
C4_Lesser(a, b) == IF StrGT(a.type, b.type) THEN b ELSE a

\* C4 (as claimed): of two spans with the same range of non-zero length and
\* different types, the one with the lexicographically greater type is kept.
C4_KeepsGreaterType ==
    (Eliminated /\ C4_Twins) =>
        /\ ~ result.raised
        /\ result.value = <<C4_Greater(textbounds[1], textbounds[2])>>

\* C4 (amended): of two spans with the same range of non-zero length and
\* different types, the one with the lexicographically smaller type is kept
\* and the other eliminated, under every rule and in either order; of Drug
\* and Chemical over [0,5) the Chemical span survives.
C4_KeepsLesserType ==
    /\ (Eliminated /\ C4_Twins) =>
          /\ ~ result.raised
          /\ result.value = <<C4_Lesser(textbounds[1], textbounds[2])>>
    /\ (call = "select"
          /\ <<selected.t1.start, selected.t1.end>>
                = <<selected.t2.start, selected.t2.end>>
          /\ selected.t1.type # selected.t2.type) =>
          /\ ~ selected.out.raised
          /\ selected.out.keep = C4_Lesser(selected.t1, selected.t2)
          /\ selected.out.elim = C4_Greater(selected.t1, selected.t2)

\* C4 witness: Drug and Chemical over [0,5), in this order, Chemical returned.
C4_Witness ==
    /\ Returned /\ C4_Twins
    /\ <<textbounds[1].start, textbounds[1].end>> = <<0, 5>>
    /\ textbounds[1].type = Drug /\ textbounds[2].type = Chemical
    /\ result.value = <<textbounds[2]>>

\* C5: select_eliminated_and_kept(a, b) and (b, a) return the same
\* (eliminated, kept) instances, for every intersecting pair of instances.
C5_Symmetric ==
    (call = "select" /\ Recognised) =>
        select_eliminated_and_kept(selected.t2, selected.t1, overlap_rule)
            = selected.out

\* C9: with a rule name that is neither keep-longer nor keep-shorter,
\* eliminate_overlaps raises, whatever the list.
C9_UnknownRuleRaises ==
    (Eliminated /\ overlap_rule = KeepBoth) => result.raised

\* Order independence. A set of spans pairwise distinct in (start, end, type)
\* is taken once, as the list in ascending order of (start, end, type), and
\* the survivors of every permutation of that list are compared.
ValueLess(a, b) ==
    \/ a.start < b.start
    \/ a.start = b.start /\ a.end < b.end
    \/ a.start = b.start /\ a.end = b.end /\ StrGT(b.type, a.type)
Ascending(tbs) == \A i \in 1..(Len(tbs) - 1) : ValueLess(tbs[i], tbs[i + 1])
Permuted(tbs) ==
    {[i \in 1..Len(tbs) |-> tbs[p[i]]] : p \in Permutations(1..Len(tbs))}
SameSurvivorsInEveryOrder ==
    \A l \in Permuted(textbounds) :
        LET r == eliminate_overlaps(l, overlap_rule)
        IN  ~ r.raised /\ Elems(r.value) = Survivors

\* C10 (as claimed): for spans pairwise distinct in (start, end, type), every
\* permutation of the input yields the same set of surviving spans.
C10_OrderIndependent ==
    (Returned /\ Recognised /\ Ascending(textbounds)) =>
        SameSurvivorsInEveryOrder

\* Two spans that both intersect a third intersect each other.
TransitiveIntersection(tbs) ==
    \A a, b, c \in Elems(tbs) :
        (a.id # b.id /\ b.id # c.id /\ a.id # c.id
            /\ Intersects(a, b) /\ Intersects(b, c)) => Intersects(a, c)

\* C10 (amended): for spans pairwise distinct in (start, end, type) among
\* which intersection is transitive, every permutation of the input yields
\* the same set of surviving spans.
C10_OrderIndependentInCliques ==
    (Returned /\ Recognised /\ Ascending(textbounds)
        /\ TransitiveIntersection(textbounds)) =>
        SameSurvivorsInEveryOrder

\* C10 witness: three pairwise intersecting spans, two of them over the same
\* range, one returned.
C10_Witness ==
    /\ Returned /\ Recognised /\ Ascending(textbounds)
    /\ TransitiveIntersection(textbounds)
    /\ Len(textbounds) = 3 /\ Len(result.value) = 1
    /\ \A a, b \in Elems(textbounds) : a.id # b.id => Intersects(a, b)
    /\ \E a, b \in Elems(textbounds) :
          a.id # b.id /\ a.start = b.start /\ a.end = b.end

\* --------------------------------------------------- retagging properties
IsInside(tag) == Len(tag) > 2 /\ tag[1] = 73 /\ tag[2] = 45
IsBegin(tag) == Len(tag) > 2 /\ tag[1] = 66 /\ tag[2] = 45
TagType(tag) == SubSeq(tag, 3, Len(tag))
Retagged == call = "retag"
TokenPlaces == {<<s, k>> : s \in DOMAIN sentences, k \in 1..TextLen}
Places == {p \in TokenPlaces : p[2] <= Len(sentences[p[1]])}
TokenAt(p) == sentences[p[1]][p[2]]
\* The span the retagger takes to cover a token.
SpanAt(p) == TokenSpan(TokenAt(p), OffsetAnn(textbounds, 1, <<>>))
Before(p) == <<p[1], p[2] - 1>>

\* C6: a token tagged I-X is not the first of its sentence, and the token
\* before it is tagged B-X or I-X.
C6_InsideFollowsSameType ==
    Retagged =>
        \A p \in Places :
            IsInside(TokenAt(p).tag) =>
                /\ p[2] > 1
                /\ LET before == TokenAt(Before(p)).tag
                   IN  /\ IsBegin(before) \/ IsInside(before)
                       /\ TagType(before) = TagType(TokenAt(p).tag)

\* C6 witness: an I-X tag on a token whose span starts inside an earlier
\* token, not at a token boundary.
C6_Witness ==
    /\ Retagged
    /\ \E p \in Places :
          /\ IsInside(TokenAt(p).tag)
          /\ \E q \in Places :
                /\ TokenAt(q).start < Get(SpanAt(p)).start
                /\ Get(SpanAt(p)).start < TokenAt(q).end

NonIntersecting(tbs) ==
    \A a, b \in Elems(tbs) : a.id # b.id => ~ Intersects(a, b)

\* C7: for pairwise non-intersecting spans, a token is tagged I- only when
\* the span covering it is the instance that covers the token before it; a
\* covered token whose span is another instance than that of the token before
\* it is tagged B-, and a token no span covers is tagged O.
C7_TagsFollowOccurrence ==
    (Retagged /\ NonIntersecting(textbounds)) =>
        \A p \in Places :
            LET tag == TokenAt(p).tag
                tb == SpanAt(p)
                continues == /\ p[2] > 1
                             /\ tb # Nothing
                             /\ SpanAt(Before(p)) # Nothing
                             /\ Get(SpanAt(Before(p))).id = Get(tb).id
            IN  /\ tb = Nothing => tag = OutTag
                /\ (tb # Nothing /\ ~ continues) => tag = BeginTag(Get(tb).type)
                /\ IsInside(tag) => continues

\* --------------------------------------------------- validation property
\* C8: when verify_textbounds returns True, every span of the list, the
\* spans flagged skip_validation included, has 0 <= start <= end <= len(text)
\* and its text is text[start:end].
C8_VerifiedSpansInRange ==
    (call = "verify" /\ verified = "True") =>
        \A t \in Elems(textbounds) :
            /\ 0 <= t.start /\ t.start <= t.end /\ t.end <= Len(text)
            /\ t.text = Slice(text, t.start, t.end)
====
